---- MODULE Spec2Model ----
(***************************************************************************)
(* Impact projection engine of the ZenoCoin analysis repository:           *)
(* class AdvancedImpactCalculator of src/advanced_impact_calculator.py,    *)
(* and its caller show_roi_calculator of src/zenocoin_monthly_app.py.      *)
(*                                                                         *)
(* Number representation.  The code computes in binary floating point.     *)
(* Here a rate (a fraction such as effective_rate, incrementality or       *)
(* volume_discount) is an integer count of 1/RS, a user count is an        *)
(* integer count of 1/CS users, and an amount of money is an integer       *)
(* count of 1/CS rupees.  Products and quotients truncate toward zero, so  *)
(* they are sign-symmetric like the floating-point ones.                   *)
(***************************************************************************)
EXTENDS Integers, Sequences, FiniteSets, TLC

\* scale of a rate: four decimal places
RS == 10^4
\* scale of money and of user counts: two decimal places
CS == 10^2

Abs(x) == IF x < 0 THEN -x ELSE x
Sgn(x) == IF x < 0 THEN -1 ELSE IF x > 0 THEN 1 ELSE 0
Min(a, b) == IF a <= b THEN a ELSE b
Max(a, b) == IF a >= b THEN a ELSE b

\* a * b where b counts 1/S: the product in the unit of a.
\* |a| is split at S so that no intermediate value leaves 32 bits.
MulS(a, b, S) ==
    LET x == Abs(a)
        y == Abs(b)
    IN  Sgn(a) * Sgn(b) * ((x \div S) * y + ((x % S) * y) \div S)

\* a / b as a count of 1/S (a and b in the same unit), b # 0, |a| * S small
DivS(a, b, S) == Sgn(a) * Sgn(b) * ((Abs(a) * S) \div Abs(b))

\* <<q, r>> with a * b = q * c + r and 0 <= r < c, by doubling, for a
\* product that does not fit 32 bits (a >= 0, b >= 0, 0 < c < 2^30)
RECURSIVE MulDivQR(_, _, _)
MulDivQR(a, b, c) ==
    IF b = 0 THEN <<0, 0>>
    ELSE LET h  == MulDivQR(a, b \div 2, c)
             c1 == IF 2 * h[2] >= c THEN 1 ELSE 0
             q2 == 2 * h[1] + c1
             r2 == 2 * h[2] - c1 * c
             ar == IF b % 2 = 1 THEN a % c ELSE 0
             aq == IF b % 2 = 1 THEN a \div c ELSE 0
             c2 == IF r2 + ar >= c THEN 1 ELSE 0
         IN  <<q2 + aq + c2, r2 + ar - c2 * c>>

\* a / b as a count of 1/S for large a, truncated toward zero, b # 0
DivBig(a, b, S) == Sgn(a) * Sgn(b) * MulDivQR(Abs(a), S, Abs(b))[1]

\* round(v, k) of Python: v counts 1/from, the result counts 1/to,
\* from = to * 10^j; ties go to the even neighbour
RoundTo(v, from, to) ==
    LET f == from \div to
        x == Abs(v)
        q == x \div f
        r == x % f
        up == (2 * r > f) \/ (2 * r = f /\ q % 2 = 1)
    IN  Sgn(v) * (IF up THEN q + 1 ELSE q)

\* int(v) of Python: truncation toward zero of a count of 1/S
IntOf(v, S) == Sgn(v) * (Abs(v) \div S)

\* e = 2.7183
EulerE == 27183

\* exp(f) for 0 <= f < 1 (f counts 1/RS): Taylor series in Horner form
RECURSIVE ExpHorner(_, _, _)
ExpHorner(f, i, t) ==
    IF i = 0 THEN t ELSE ExpHorner(f, i - 1, RS + (f * t) \div (i * RS))

ExpFrac(f) == ExpHorner(f, 9, RS)

\* v * e^k for an integer k
RECURSIVE ExpShift(_, _)
ExpShift(v, k) ==
    IF k = 0 THEN v
    ELSE IF k > 0 THEN ExpShift(MulS(v, EulerE, RS), k - 1)
    ELSE ExpShift((v * RS) \div EulerE, k + 1)

\* np.exp(z), z and the result counting 1/RS
Exp(z) ==
    LET k == IF z >= 0 THEN z \div RS ELSE -((-z + RS - 1) \div RS)
        f == z - k * RS
    IN  ExpShift(ExpFrac(f), k)


(***************************************************************************)
(* Python values                                                           *)
(***************************************************************************)
\* None
None == [none |-> TRUE]
\* float('inf'), above every finite value of the model
Inf == 2147483647
\* a float nan (0/0 on numpy operands)
NaN == -Inf - 1

\* results = {}
EmptyDict == [k \in {} |-> 0]
\* d[k] = v
DictSet(d, k, v) == [x \in (DOMAIN d) \cup {k} |-> IF x = k THEN v ELSE d[x]]

(***************************************************************************)
(* The configuration: the attributes of an AdvancedImpactCalculator        *)
(***************************************************************************)
\* the historical files read by __init__, as far as the engine looks at
\* them: the number of rows of monthly_trends.csv and the slope a log-log
\* regression gives on it, the rows and mean avg_frequency of the two
\* segments of customer_lifetime_monthly.csv, the rows of
\* monthly_customer_data.csv
ShortHistory ==
    [trend_rows |-> 1, trend_slope |-> 0,
     zc_rows |-> 0, zc_mean_frequency |-> 0,
     non_zc_rows |-> 0, non_zc_mean_frequency |-> 0,
     monthly_rows |-> 5]
LongHistory ==
    [trend_rows |-> 3, trend_slope |-> -4200,
     zc_rows |-> 2, zc_mean_frequency |-> 650,
     non_zc_rows |-> 2, non_zc_mean_frequency |-> 350,
     monthly_rows |-> 5]
Histories == {ShortHistory, LongHistory}

\* the object before __init__ has assigned anything
NoConfig == [constructed |-> FALSE]

\* _calculate_elasticity with the regression run on any number of rows
calculate_elasticity_unguarded(h) ==
    [discount_elasticity |-> h.trend_slope,
     network_effect |-> 1500,
     saturation_point |-> 4500,
     adoption_speed |-> 8000]

\* _calculate_elasticity: the attributes it assigns
calculate_elasticity(h) ==
    [discount_elasticity |-> IF h.trend_rows > 1 THEN h.trend_slope ELSE -3000,
     network_effect |-> 1500,
     saturation_point |-> 4500,
     adoption_speed |-> 8000]

\* _calculate_baseline_metrics: the attributes it assigns
calculate_baseline_metrics(h) ==
    [current_redemption_rate |-> 2100,
     current_avg_monthly_spend_zc |-> 1088 * CS,
     current_avg_monthly_spend_non_zc |-> 624 * CS,
     spend_lift_per_user |-> 464 * CS,
     retention_7d_zc |-> 2480,
     retention_30d_zc |-> 6750,
     retention_7d_non_zc |-> 2280,
     retention_30d_non_zc |-> 6050,
     avg_freq_zc |-> IF h.zc_rows > 0 THEN h.zc_mean_frequency ELSE 730,
     avg_freq_non_zc |-> IF h.non_zc_rows > 0 THEN h.non_zc_mean_frequency ELSE 400]
    @@ calculate_elasticity(h)

\* _build_predictive_models: the attributes it assigns; std is the
\* bootstrapped estimate, which depends on np.random
build_predictive_models(h, std) ==
    IF h.monthly_rows > 10
    THEN [spend_model |-> "RandomForestRegressor", prediction_std |-> std]
    ELSE [spend_model |-> "None", prediction_std |-> 100 * CS]

\* the bootstrapped standard deviations the random resampling may give
BootstrapStd == {80 * CS, 120 * CS}

\* __init__
init(h, std) ==
    [constructed |-> TRUE]
    @@ calculate_baseline_metrics(h)
    @@ build_predictive_models(h, std)

(***************************************************************************)
(* The curve and risk helpers                                              *)
(***************************************************************************)
\* lines 234-235 with the network effect raising the saturation level
logistic_adoption_networked(self, target_rate) ==
    LET x == target_rate * 10 - 5 * RS
    IN  DivS(MulS(self.saturation_point, RS + self.network_effect, RS),
             RS + Exp(-MulS(self.adoption_speed, x, RS)), RS)

\* _apply_adoption_curve, lines 234-235: the logistic value
logistic_adoption(self, target_rate) ==
    LET x == target_rate * 10 - 5 * RS
    IN  DivS(self.saturation_point,
             RS + Exp(-MulS(self.adoption_speed, x, RS)), RS)

\* _apply_adoption_curve with the cap dropped
apply_adoption_curve_uncapped(self, target_rate) ==
    logistic_adoption(self, target_rate)

\* _apply_adoption_curve with the sign of the exponent lost
apply_adoption_curve_falling(self, target_rate) ==
    LET x == target_rate * 10 - 5 * RS
        adoption == DivS(self.saturation_point,
                         RS + Exp(MulS(self.adoption_speed, x, RS)), RS)
    IN  Min(adoption, target_rate)

\* _apply_adoption_curve
apply_adoption_curve(self, target_rate) ==
    LET adoption == logistic_adoption(self, target_rate)
    IN  Min(adoption, target_rate)

\* _calculate_incrementality with the cannibalization added to the base
calculate_incrementality_rising(usage_rate) ==
    LET base_incrementality == 7500
        cannibalization_factor == MulS(usage_rate, 3000, RS)
    IN  Max(4000, base_incrementality + cannibalization_factor)

\* _calculate_incrementality
calculate_incrementality(usage_rate) ==
    LET base_incrementality == 7500
        cannibalization_factor == MulS(usage_rate, 3000, RS)
    IN  Max(4000, base_incrementality - cannibalization_factor)

\* _monthly_growth_curve centred at the end of the year
monthly_growth_curve_late(month_index, target_rate) ==
    LET growth_rate ==
            DivS(target_rate, RS + Exp(-MulS(8000, (month_index - 12) * RS, RS)), RS)
    IN  Min(growth_rate, target_rate)

\* _monthly_growth_curve
monthly_growth_curve(month_index, target_rate) ==
    LET growth_rate ==
            DivS(target_rate, RS + Exp(-MulS(8000, (month_index - 6) * RS, RS)), RS)
    IN  Min(growth_rate, target_rate)

\* _calculate_risk_factor with the execution risk as the whole usage rate
calculate_risk_factor_full(usage_rate) ==
    LET execution_risk == Min(3000, usage_rate)
        market_risk == 1000
    IN  execution_risk + market_risk - MulS(execution_risk, market_risk, RS)

\* _calculate_risk_factor
calculate_risk_factor(usage_rate) ==
    LET execution_risk == Min(3000, MulS(usage_rate, 5000, RS))
        market_risk == 1000
    IN  execution_risk + market_risk - MulS(execution_risk, market_risk, RS)

(***************************************************************************)
(* calculate_impact, section by section.  A frame is the record of the     *)
(* local variables of one call; the result mapping is built key by key.    *)
(***************************************************************************)
\* a / b on floats with b = 0: numpy operands give nan or inf (the warning
\* is filtered), Python floats raise ZeroDivisionError
FloatDivZero(a) == IF a = 0 THEN NaN ELSE Sgn(a) * Inf

\* round(v, k) of a float that may be nan or infinite
RoundF(v, from, to) ==
    IF v \in {NaN, Inf, -Inf} THEN v ELSE RoundTo(v, from, to)

\* lines 127-142 with 60% of the customers taken as eligible
users_section_narrow(self, target_usage_percent, total_monthly_customers) ==
    LET current_usage_percent == 2100
        target_rate == DivS(target_usage_percent, 100, RS)
        effective_rate == apply_adoption_curve(self, target_rate)
        current_rate == DivS(current_usage_percent, 100 * CS, RS)
        eligible_customers == MulS(total_monthly_customers * CS, 6000, RS)
        current_coin_users == MulS(eligible_customers, current_rate, RS)
        target_coin_users == MulS(eligible_customers, effective_rate, RS)
    IN  [target_usage_percent |-> target_usage_percent,
         total_monthly_customers |-> total_monthly_customers,
         effective_rate |-> effective_rate,
         effective_rate_is_np |->
             ~(target_rate < logistic_adoption(self, target_rate)),
         eligible_customers |-> eligible_customers,
         current_coin_users |-> current_coin_users,
         target_coin_users |-> target_coin_users,
         incremental_coin_users |-> target_coin_users - current_coin_users]

\* lines 127-142: the adoption curve and the user counts
\* target_usage_percent is a whole percentage, total_monthly_customers a count
users_section(self, target_usage_percent, total_monthly_customers) ==
    LET current_usage_percent == 2100
        target_rate == DivS(target_usage_percent, 100, RS)
        effective_rate == apply_adoption_curve(self, target_rate)
        current_rate == DivS(current_usage_percent, 100 * CS, RS)
        eligible_customers == MulS(total_monthly_customers * CS, 8000, RS)
        current_coin_users == MulS(eligible_customers, current_rate, RS)
        target_coin_users == MulS(eligible_customers, effective_rate, RS)
    IN  [target_usage_percent |-> target_usage_percent,
         total_monthly_customers |-> total_monthly_customers,
         effective_rate |-> effective_rate,
         effective_rate_is_np |->
             ~(target_rate < logistic_adoption(self, target_rate)),
         eligible_customers |-> eligible_customers,
         current_coin_users |-> current_coin_users,
         target_coin_users |-> target_coin_users,
         incremental_coin_users |-> target_coin_users - current_coin_users]

\* lines 143-145 with the change in users rounded down
write_users_floor(f, results) ==
    LET r1 == DictSet(results, "current_coin_users", IntOf(f.current_coin_users, CS))
        r2 == DictSet(r1, "target_coin_users", IntOf(f.target_coin_users, CS))
    IN  DictSet(r2, "new_coin_users", f.incremental_coin_users \div CS)

\* lines 143-145
write_users(f, results) ==
    LET r1 == DictSet(results, "current_coin_users", IntOf(f.current_coin_users, CS))
        r2 == DictSet(r1, "target_coin_users", IntOf(f.target_coin_users, CS))
    IN  DictSet(r2, "new_coin_users", IntOf(f.incremental_coin_users, CS))

\* lines 165-170 with the shrinking branch clamped to zero
incremental_revenue_clamped(incremental_coin_users, incremental_spend_per_user) ==
    IF incremental_coin_users > 0
    THEN MulS(incremental_coin_users, incremental_spend_per_user, CS)
    ELSE 0

\* lines 165-170 with the shrinking branch taking the size of the delta
incremental_revenue_abs(incremental_coin_users, incremental_spend_per_user) ==
    IF incremental_coin_users > 0
    THEN MulS(incremental_coin_users, incremental_spend_per_user, CS)
    ELSE MulS(Abs(incremental_coin_users), incremental_spend_per_user, CS)

\* lines 165-170: the revenue of the signed user delta
incremental_revenue(incremental_coin_users, incremental_spend_per_user) ==
    IF incremental_coin_users > 0
    THEN MulS(incremental_coin_users, incremental_spend_per_user, CS)
    ELSE MulS(incremental_coin_users, incremental_spend_per_user, CS)

\* users * avg_discount_per_redemption * avg_redemptions_per_user * volume_discount
redemption_cost(users, avg_redemptions_per_user, volume_discount) ==
    LET avg_discount_per_redemption == 30
    IN  MulS(MulS(users * avg_discount_per_redemption,
                  avg_redemptions_per_user, CS),
             volume_discount, RS)

\* lines 185-189: the cost of the signed user delta
incremental_cost(incremental_coin_users, avg_redemptions_per_user, volume_discount) ==
    IF incremental_coin_users > 0
    THEN redemption_cost(incremental_coin_users, avg_redemptions_per_user, volume_discount)
    ELSE redemption_cost(incremental_coin_users, avg_redemptions_per_user, volume_discount)

\* lines 147-195: spending pattern, incremental revenue, costs, net impact
money_section(self, f) ==
    LET base_spend == self.current_avg_monthly_spend_non_zc
        incrementality_rate == calculate_incrementality(f.effective_rate)
        incremental_spend_per_user ==
            MulS(self.spend_lift_per_user, incrementality_rate, RS)
        monthly_incremental_revenue ==
            incremental_revenue(f.incremental_coin_users, incremental_spend_per_user)
        avg_redemptions_per_user == self.avg_freq_zc
        volume_discount == RS - MulS(1000, Min(f.effective_rate, 5000), RS)
        total_monthly_cost ==
            redemption_cost(f.target_coin_users, avg_redemptions_per_user, volume_discount)
        monthly_cost ==
            incremental_cost(f.incremental_coin_users, avg_redemptions_per_user,
                             volume_discount)
    IN  f @@
        [raised |-> IF base_spend = 0 THEN "ZeroDivisionError" ELSE "none",
         lift_factor |-> IF base_spend = 0 THEN NaN
                         ELSE RS + DivS(self.spend_lift_per_user, base_spend, RS),
         avg_monthly_per_user |-> self.current_avg_monthly_spend_zc,
         incrementality_rate |-> incrementality_rate,
         incremental_spend_per_user |-> incremental_spend_per_user,
         monthly_incremental_revenue |-> monthly_incremental_revenue,
         avg_redemptions_per_user |-> avg_redemptions_per_user,
         volume_discount |-> volume_discount,
         total_monthly_cost |-> total_monthly_cost,
         monthly_cost |-> monthly_cost,
         net_monthly_impact |-> monthly_incremental_revenue - monthly_cost]

\* lines 154, 172, 191-192, 196 with monthly_cost stored on the growing
\* branch only
write_money_on_growth(f, results) ==
    LET r1 == DictSet(results, "avg_monthly_amount_per_user",
                      RoundTo(f.avg_monthly_per_user, CS, CS))
        r2 == DictSet(r1, "incremental_revenue_monthly",
                      RoundTo(f.monthly_incremental_revenue, CS, CS))
        r3 == IF f.incremental_coin_users > 0
              THEN DictSet(r2, "monthly_cost", RoundTo(f.monthly_cost, CS, CS))
              ELSE r2
        r4 == DictSet(r3, "total_monthly_cost", RoundTo(f.total_monthly_cost, CS, CS))
    IN  DictSet(r4, "net_monthly_impact", RoundTo(f.net_monthly_impact, CS, CS))

\* lines 154, 172, 191-192, 196.  Money is carried in hundredths, the
\* precision round(., 2) rounds to.
write_money(f, results) ==
    LET r1 == DictSet(results, "avg_monthly_amount_per_user",
                      RoundTo(f.avg_monthly_per_user, CS, CS))
        r2 == DictSet(r1, "incremental_revenue_monthly",
                      RoundTo(f.monthly_incremental_revenue, CS, CS))
        r3 == DictSet(r2, "monthly_cost", RoundTo(f.monthly_cost, CS, CS))
        r4 == DictSet(r3, "total_monthly_cost", RoundTo(f.total_monthly_cost, CS, CS))
    IN  DictSet(r4, "net_monthly_impact", RoundTo(f.net_monthly_impact, CS, CS))

\* lines 201-206 with the month's users taken as the delta against the
\* current users
month_impact_delta(f, month) ==
    LET month_rate == monthly_growth_curve(month, f.effective_rate)
        month_users == MulS(f.eligible_customers, month_rate, RS) - f.current_coin_users
        month_revenue == MulS(month_users, f.incremental_spend_per_user, CS)
        month_cost == redemption_cost(month_users, f.avg_redemptions_per_user,
                                      f.volume_discount)
    IN  month_revenue - month_cost

\* lines 201-206: the impact of one month of the trajectory
month_impact(f, month) ==
    LET month_rate == monthly_growth_curve(month, f.effective_rate)
        month_users == MulS(f.eligible_customers, month_rate, RS)
        month_revenue == MulS(month_users, f.incremental_spend_per_user, CS)
        month_cost == redemption_cost(month_users, f.avg_redemptions_per_user,
                                      f.volume_discount)
    IN  month_revenue - month_cost

\* lines 200-208: sum(monthly_impacts) over range(months)
RECURSIVE sum_monthly_impacts(_, _)
sum_monthly_impacts(f, months) ==
    IF months = 0 THEN 0
    ELSE sum_monthly_impacts(f, months - 1) + month_impact(f, months - 1)

\* line 212 with the guard admitting a zero cost
roi_guard_nonneg(monthly_cost) == monthly_cost >= 0
\* line 212: the condition of the ROI expression
roi_guard(monthly_cost) == monthly_cost > 0

\* line 212 with the factor 12 lost
roi_denominator_monthly(monthly_cost) == monthly_cost
\* line 212: the divisor of the ROI expression, monthly_cost * 12
roi_denominator(monthly_cost) == monthly_cost * 12

\* line 213 with the guard admitting every net impact but zero
payback_guard_nonzero(net_monthly_impact) == net_monthly_impact # 0
\* line 213 with the guard admitting a zero net impact
payback_guard_nonneg(net_monthly_impact) == net_monthly_impact >= 0
\* line 213: the condition of the payback expression
payback_guard(net_monthly_impact) == net_monthly_impact > 0

\* lines 198-227: annual impact, ROI, payback, LTV, confidence interval, risk.
\* A division by zero on numpy floats gives nan or inf, on Python floats it
\* raises; the operands are numpy floats when effective_rate is one.
final_section(self, f) ==
    LET annual_impact == sum_monthly_impacts(f, 12)
        roi_den == roi_denominator(f.monthly_cost)
        roi_percentage ==
            IF roi_guard(f.monthly_cost)
            THEN RoundF(IF roi_den = 0 THEN FloatDivZero(annual_impact)
                        ELSE DivBig(annual_impact, roi_den, 100 * 1000),
                        1000, 100)
            ELSE 0
        payback_period_months ==
            IF payback_guard(f.net_monthly_impact)
            THEN RoundF(IF f.net_monthly_impact = 0 THEN FloatDivZero(f.monthly_cost)
                        ELSE DivBig(f.monthly_cost, f.net_monthly_impact, 100),
                        100, 10)
            ELSE Inf
        z_score == 19600
        revenue_std == MulS(f.monthly_incremental_revenue, 1500, RS)
        risk_factor == calculate_risk_factor(f.effective_rate)
        zero_division ==
            \/ roi_guard(f.monthly_cost) /\ roi_den = 0
            \/ payback_guard(f.net_monthly_impact) /\ f.net_monthly_impact = 0
    IN  [annual_impact |-> annual_impact,
         roi_percentage |-> roi_percentage,
         payback_period_months |-> payback_period_months,
         z_score |-> z_score,
         revenue_std |-> revenue_std,
         risk_factor |-> risk_factor,
         raised |-> IF zero_division /\ ~f.effective_rate_is_np
                    THEN "ZeroDivisionError" ELSE f.raised]
        @@ f

\* lines 209, 212-214, 221-222, 226-227
write_final(f, results) ==
    LET r1 == DictSet(results, "annual_impact", RoundTo(f.annual_impact, CS, CS))
        r2 == DictSet(r1, "roi_percentage", f.roi_percentage)
        r3 == DictSet(r2, "payback_period_months", f.payback_period_months)
        r4 == DictSet(r3, "customer_ltv_increase",
                      RoundTo(f.incremental_spend_per_user * 48, 10 * CS, CS))
        r5 == DictSet(r4, "revenue_confidence_lower",
                      RoundTo(f.monthly_incremental_revenue
                              - MulS(f.revenue_std, f.z_score, RS), CS, CS))
        r6 == DictSet(r5, "revenue_confidence_upper",
                      RoundTo(f.monthly_incremental_revenue
                              + MulS(f.revenue_std, f.z_score, RS), CS, CS))
        r7 == DictSet(r6, "risk_adjusted_annual_impact",
                      RoundTo(MulS(f.annual_impact, RS - f.risk_factor, RS), CS, CS))
    IN  DictSet(r7, "risk_score", RoundTo(f.risk_factor * 100, RS, 10))

\* the local variables of a call that has run to its last line
calculate_impact_frame(self, target_usage_percent, total_monthly_customers) ==
    final_section(self,
        money_section(self,
            users_section(self, target_usage_percent, total_monthly_customers)))

\* what a call with the final frame f hands to its caller: the result
\* mapping (line 229), or the exception that left it
calculate_impact_return(f) ==
    IF f.raised = "none"
    THEN [raised |-> "none",
          results |-> write_final(f, write_money(f, write_users(f, EmptyDict)))]
    ELSE [raised |-> f.raised, results |-> None]

\* calculate_impact
calculate_impact(self, target_usage_percent, total_monthly_customers) ==
    calculate_impact_return(
        calculate_impact_frame(self, target_usage_percent, total_monthly_customers))

\* calculate_impact that keeps the effective rate of the call in the engine
calculate_impact_self_memo(self, target_usage_percent, total_monthly_customers) ==
    [self EXCEPT !.saturation_point =
        apply_adoption_curve(self, DivS(target_usage_percent, 100, RS))]

\* calculate_impact: the engine after the call; the body assigns no
\* attribute of self
calculate_impact_self(self, target_usage_percent, total_monthly_customers) ==
    self

\* get_kpi_definitions with an entry that lacks its importance
get_kpi_definitions_partial ==
    ("New Coin Users" :>
        [definition |-> "Projected number of unique customers who will use ZenoCoin in a month",
         formula |-> "Eligible Customers x Target Usage % x Adoption Curve Factor"])

\* get_kpi_definitions
get_kpi_definitions ==
    ("New Coin Users" :>
        [definition |-> "Projected number of unique customers who will use ZenoCoin in a month",
         formula |-> "Eligible Customers x Target Usage % x Adoption Curve Factor",
         importance |-> "Primary driver of program scale and network effects"])
    @@ ("Average Monthly Amount per User" :>
        [definition |-> "Expected average monthly spend by ZenoCoin users",
         formula |-> "Base Spend x Lift Factor x Network Effect Multiplier",
         importance |-> "Indicates spending behavior change and program effectiveness"])
    @@ ("Incremental Revenue" :>
        [definition |-> "Additional revenue generated beyond baseline spending",
         formula |-> "(Avg Spend ZC - Avg Spend Non-ZC) x New Users x Incrementality Rate",
         importance |-> "True economic value created by the program"])
    @@ ("Net Monthly Impact" :>
        [definition |-> "Net financial impact after accounting for all costs",
         formula |-> "Incremental Revenue - Program Costs",
         importance |-> "Actual bottom-line impact on profitability"])
    @@ ("Annual Impact" :>
        [definition |-> "Projected 12-month cumulative impact with growth curve",
         formula |-> "Sum of monthly impacts with S-curve adoption model",
         importance |-> "Long-term value creation and ROI justification"])
    @@ ("Risk-Adjusted Impact" :>
        [definition |-> "Annual impact adjusted for execution and market risks",
         formula |-> "Annual Impact x (1 - Risk Factor)",
         importance |-> "Conservative estimate for financial planning"])
    @@ ("Payback Period" :>
        [definition |-> "Time to recover initial investment",
         formula |-> "Monthly Cost / Net Monthly Impact",
         importance |-> "Investment efficiency and cash flow planning"])
    @@ ("Customer LTV Increase" :>
        [definition |-> "Incremental lifetime value per ZenoCoin user",
         formula |-> "Monthly Incremental Spend x Average Customer Lifetime",
         importance |-> "Long-term customer value creation"])

\* get_kpi_definitions that clears an attribute of the engine
get_kpi_definitions_self_reset(self) == [self EXCEPT !.network_effect = 0]

\* get_kpi_definitions: the engine after the call
get_kpi_definitions_self(self) == self

\* the keys of the result mapping show_roi_calculator reads
KeysReadByDashboard ==
    {"new_coin_users", "avg_monthly_amount_per_user", "incremental_revenue_monthly",
     "net_monthly_impact", "roi_percentage", "annual_impact",
     "risk_adjusted_annual_impact", "risk_score", "customer_ltv_increase",
     "payback_period_months", "revenue_confidence_lower", "revenue_confidence_upper"}

(***************************************************************************)
(* The state machine                                                       *)
(***************************************************************************)
\* the target percentages and customer counts a caller passes
TargetPercents == {-30, 0, 20, 40, 60, 100, 150}
DefaultCustomers == 20000
CustomerCounts == {-5, 0, DefaultCustomers}

\* the threads that call one engine concurrently
NumThreads == 2
Threads == 1..NumThreads
\* the inputs of the concurrent callers
ThreadTargets == {20, 60}
ThreadCustomers == {1, DefaultCustomers}

VARIABLES
    history,          \* the historical files the engine is built from
    self,             \* the attributes of the engine
    first_call,       \* the first calculate_impact call of the caller and its outcome
    last_call,        \* the latest calculate_impact call of the caller and its outcome
    kpi_definitions,  \* what the latest get_kpi_definitions call returned
    heap,             \* the result mappings under construction, by object identity
    thread            \* the concurrent callers: position, frame, mapping, outcome

vars == <<history, self, first_call, last_call, kpi_definitions, heap, thread>>

IdleThread == [pc |-> "idle", frame |-> None, results |-> 0, returned |-> None]

Init ==
    /\ history \in Histories
    /\ self = NoConfig
    /\ first_call = None
    /\ last_call = None
    /\ kpi_definitions = None
    /\ heap = [i \in Threads |-> EmptyDict]
    /\ thread = [t \in Threads |-> IdleThread]

\* calculator = AdvancedImpactCalculator()
Construct ==
    /\ ~self.constructed
    /\ \E std \in BootstrapStd : self' = init(history, std)
    /\ UNCHANGED <<history, first_call, last_call, kpi_definitions, heap, thread>>

\* results = calculator.calculate_impact(target_usage, total_customers)
CalculateImpact(target_usage_percent, total_monthly_customers) ==
    /\ self.constructed
    /\ LET f == calculate_impact_frame(self, target_usage_percent,
                                        total_monthly_customers)
           call == [target_usage_percent |-> target_usage_percent,
                    total_monthly_customers |-> total_monthly_customers,
                    frame |-> f,
                    out |-> calculate_impact_return(f)]
       IN  /\ last_call' = call
           /\ first_call' = IF first_call = None THEN call ELSE first_call
    /\ self' = calculate_impact_self(self, target_usage_percent, total_monthly_customers)
    /\ UNCHANGED <<history, kpi_definitions, heap, thread>>

\* definitions = calculator.get_kpi_definitions()
GetKpiDefinitions ==
    /\ self.constructed
    /\ kpi_definitions' = get_kpi_definitions
    /\ self' = get_kpi_definitions_self(self)
    /\ UNCHANGED <<history, first_call, last_call, heap, thread>>

Next ==
    \/ Construct
    \/ \E p \in TargetPercents, n \in CustomerCounts : CalculateImpact(p, n)
    \/ GetKpiDefinitions

Spec == Init /\ [][Next]_vars

(***************************************************************************)
(* Concurrent callers: each thread runs calculate_impact section by        *)
(* section; the sections of different threads interleave freely.           *)
(***************************************************************************)
\* line 125 with one mapping shared by every call
AllocResultsShared(t) == 1

\* line 125, results = {}: the identity of the mapping the call creates;
\* it is an object of the call's own
AllocResults(t) == t

\* lines 125-145
BeginCall(t, target_usage_percent, total_monthly_customers) ==
    /\ self.constructed
    /\ thread[t].pc = "idle"
    /\ LET ref == AllocResults(t)
           f == users_section(self, target_usage_percent, total_monthly_customers)
       IN  /\ heap' = [heap EXCEPT ![ref] = write_users(f, EmptyDict)]
           /\ thread' = [thread EXCEPT ![t] =
                  [pc |-> "money", frame |-> f, results |-> ref, returned |-> None]]
    /\ UNCHANGED <<history, self, first_call, last_call, kpi_definitions>>

\* lines 147-196
StepMoney(t) ==
    /\ thread[t].pc = "money"
    /\ LET ref == thread[t].results
           f == money_section(self, thread[t].frame)
       IN  /\ heap' = [heap EXCEPT ![ref] = write_money(f, heap[ref])]
           /\ thread' = [thread EXCEPT ![t].pc = "final", ![t].frame = f]
    /\ UNCHANGED <<history, self, first_call, last_call, kpi_definitions>>

\* lines 198-229
StepFinal(t) ==
    /\ thread[t].pc = "final"
    /\ LET ref == thread[t].results
           f == final_section(self, thread[t].frame)
           results == write_final(f, heap[ref])
       IN  /\ heap' = [heap EXCEPT ![ref] = results]
           /\ thread' = [thread EXCEPT
                  ![t].pc = "idle",
                  ![t].frame = f,
                  ![t].returned =
                      IF f.raised = "none"
                      THEN [raised |-> "none", results |-> results]
                      ELSE [raised |-> f.raised, results |-> None]]
    /\ UNCHANGED <<history, self, first_call, last_call, kpi_definitions>>

NextConcurrent ==
    \/ Construct
    \/ \E t \in Threads, p \in ThreadTargets, n \in ThreadCustomers : BeginCall(t, p, n)
    \/ \E t \in Threads : StepMoney(t)
    \/ \E t \in Threads : StepFinal(t)

SpecConcurrent == Init /\ [][NextConcurrent]_vars

(***************************************************************************)
(* Engines built from different historical files, each called by a         *)
(* sequential caller                                                       *)
(***************************************************************************)
\* monthly_trends.csv: its rows and the slope linregress gives on them (nan
\* where there is nothing to fit)
TrendFiles == {<<0, NaN>>, <<1, NaN>>, <<2, -3000>>, <<3, -4200>>}
\* a segment of customer_lifetime_monthly.csv: its rows and the mean of
\* avg_frequency (nan for an empty segment)
ZcSegments == {<<0, NaN>>, <<2, 650>>}
NonZcSegments == {<<0, NaN>>, <<2, 350>>}
\* monthly_customer_data.csv: its rows
MonthlyFiles == {5, 12}
FileHistories ==
    {[trend_rows |-> t[1], trend_slope |-> t[2],
      zc_rows |-> z[1], zc_mean_frequency |-> z[2],
      non_zc_rows |-> nz[1], non_zc_mean_frequency |-> nz[2],
      monthly_rows |-> m] :
        t \in TrendFiles, z \in ZcSegments, nz \in NonZcSegments, m \in MonthlyFiles}

\* the inputs of the caller: the ends of the dashboard's sliders
SliderTargets == {10, 60}
SliderCustomers == {10000}

InitFiles ==
    /\ history \in FileHistories
    /\ self = NoConfig
    /\ first_call = None
    /\ last_call = None
    /\ kpi_definitions = None
    /\ heap = [i \in Threads |-> EmptyDict]
    /\ thread = [t \in Threads |-> IdleThread]

NextFiles ==
    \/ Construct
    \/ \E p \in SliderTargets, n \in SliderCustomers : CalculateImpact(p, n)

SpecFiles == InitFiles /\ [][NextFiles]_vars

(***************************************************************************)
(* Properties                                                              *)
(***************************************************************************)
Called == last_call # None
TargetRate(call) == DivS(call.target_usage_percent, 100, RS)
SameInput(a, b) ==
    /\ a.target_usage_percent = b.target_usage_percent
    /\ a.total_monthly_customers = b.total_monthly_customers

\* C1: a call with a target usage percent outside [0,100] raises
\* InvalidParameter and returns no result mapping
C1_InvalidTargetRejected ==
    (Called /\ last_call.target_usage_percent \notin 0..100)
        => /\ last_call.out.raised = "InvalidParameter"
           /\ last_call.out.results = None

\* C2: a call with total_monthly_customers <= 0 raises InvalidParameter and
\* returns no result mapping
C2_InvalidCustomersRejected ==
    (Called /\ last_call.total_monthly_customers <= 0)
        => /\ last_call.out.raised = "InvalidParameter"
           /\ last_call.out.results = None

\* C3: for a target in [0,100] the effective rate never exceeds the raw
\* target fraction; a target of 0 gives an effective rate of 0, no target
\* users and incremental users equal to minus the current users
C3_EffectiveRateCapped ==
    (Called /\ last_call.target_usage_percent \in 0..100)
        => /\ last_call.frame.effective_rate <= TargetRate(last_call)
           /\ last_call.target_usage_percent = 0
                => /\ last_call.frame.effective_rate = 0
                   /\ last_call.frame.target_coin_users = 0
                   /\ last_call.frame.incremental_coin_users
                        = -last_call.frame.current_coin_users
                   /\ last_call.out.raised = "none"
                   /\ last_call.out.results["target_coin_users"] = 0
                   /\ last_call.out.results["new_coin_users"]
                        = -last_call.out.results["current_coin_users"]

\* a call with target 0 after a first call whose rate the curve, not the
\* cap, decided
C3_Witness ==
    /\ Called
    /\ first_call.target_usage_percent = 40
    /\ first_call.frame.effective_rate < TargetRate(first_call)
    /\ first_call.frame.effective_rate > 0
    /\ last_call.target_usage_percent = 0
    /\ last_call.total_monthly_customers = DefaultCustomers
    /\ last_call.out.results["new_coin_users"] = -3360

\* the effective rate, and for a customer count that is not negative the
\* target users, of call a are at most those of call b
RateNotAbove(a, b) ==
    /\ a.frame.effective_rate <= b.frame.effective_rate
    /\ a.total_monthly_customers >= 0
        => a.frame.target_coin_users <= b.frame.target_coin_users

\* C4: for one customer count and two targets p1 <= p2 in [0,100] the
\* effective rate for p1 is at most the one for p2, and the target users do
\* not decrease
C4_Monotonic ==
    (/\ Called
     /\ first_call.total_monthly_customers = last_call.total_monthly_customers
     /\ first_call.target_usage_percent \in 0..100
     /\ last_call.target_usage_percent \in 0..100)
        => /\ first_call.target_usage_percent <= last_call.target_usage_percent
                => RateNotAbove(first_call, last_call)
           /\ last_call.target_usage_percent <= first_call.target_usage_percent
                => RateNotAbove(last_call, first_call)

\* two calls with rising targets and strictly rising rates and target users
C4_Witness ==
    /\ Called
    /\ first_call.total_monthly_customers = DefaultCustomers
    /\ last_call.total_monthly_customers = DefaultCustomers
    /\ first_call.target_usage_percent = 20
    /\ last_call.target_usage_percent = 60
    /\ first_call.frame.effective_rate < last_call.frame.effective_rate
    /\ first_call.frame.target_coin_users < last_call.frame.target_coin_users

\* C5: incremental users are the signed delta target users - current users;
\* when the target users are below the current users the incremental users
\* are negative, the monthly incremental revenue is <= 0 (< 0 for a target
\* of 20% of a positive customer count) and the incremental monthly cost is
\* negative
C5_SignConsistency ==
    Called
        => /\ last_call.frame.incremental_coin_users
                = last_call.frame.target_coin_users - last_call.frame.current_coin_users
           /\ last_call.frame.target_coin_users < last_call.frame.current_coin_users
                => /\ last_call.frame.incremental_coin_users < 0
                   /\ last_call.out.raised = "none"
                   /\ last_call.out.results["new_coin_users"] <= 0
                   /\ last_call.frame.monthly_incremental_revenue <= 0
                   /\ last_call.out.results["incremental_revenue_monthly"] <= 0
                   /\ last_call.frame.monthly_cost < 0
                   /\ last_call.out.results["monthly_cost"] < 0
           /\ (last_call.target_usage_percent = 20
               /\ last_call.total_monthly_customers > 0)
                => /\ last_call.frame.target_coin_users
                        < last_call.frame.current_coin_users
                   /\ last_call.out.results["incremental_revenue_monthly"] < 0

\* the call with target 20% of 20000 customers: a contraction
C5_Witness ==
    /\ Called
    /\ last_call.target_usage_percent = 20
    /\ last_call.total_monthly_customers = DefaultCustomers
    /\ last_call.out.results["new_coin_users"] < 0
    /\ last_call.out.results["incremental_revenue_monthly"] < 0
    /\ last_call.out.results["monthly_cost"] < 0

\* C6: no call raises a division error; a net monthly impact of 0 gives the
\* infinite payback period, an incremental monthly cost of 0 gives an ROI of
\* 0, and no result field is nan
C6_NoDivisionFault ==
    Called
        => /\ last_call.out.raised # "ZeroDivisionError"
           /\ last_call.out.raised = "none"
                => /\ last_call.frame.net_monthly_impact = 0
                        => last_call.out.results["payback_period_months"] = Inf
                   /\ last_call.frame.monthly_cost = 0
                        => last_call.out.results["roi_percentage"] = 0
                   /\ \A k \in DOMAIN last_call.out.results :
                        last_call.out.results[k] # NaN

\* a call whose net monthly impact and incremental cost are both 0
C6_Witness ==
    /\ Called
    /\ last_call.frame.net_monthly_impact = 0
    /\ last_call.frame.monthly_cost = 0
    /\ last_call.out.raised = "none"
    /\ last_call.out.results["payback_period_months"] = Inf
    /\ last_call.out.results["roi_percentage"] = 0

\* C7: two calls on one engine with the same inputs, whatever calls lie
\* between them, return the same result mapping
C7_Idempotent ==
    (Called /\ SameInput(first_call, last_call))
        => first_call.out = last_call.out

\* the first call repeated after a get_kpi_definitions call
C7_Witness ==
    /\ Called
    /\ kpi_definitions # None
    /\ SameInput(first_call, last_call)
    /\ first_call.target_usage_percent = 60
    /\ first_call.total_monthly_customers = DefaultCustomers
    /\ last_call.out.raised = "none"

\* C8: a call that ran interleaved with the calls of other threads returns
\* what the same call returns when it runs alone
C8_ConcurrentCallsIndependent ==
    \A t \in Threads :
        thread[t].returned # None
            => thread[t].returned
                 = calculate_impact(self, thread[t].frame.target_usage_percent,
                                    thread[t].frame.total_monthly_customers)

\* thread 1 has returned while thread 2 is in the middle of a call with
\* other inputs
C8_Witness ==
    /\ thread[1].returned # None
    /\ thread[1].returned.raised = "none"
    /\ thread[2].pc = "final"
    /\ thread[1].frame.target_usage_percent # thread[2].frame.target_usage_percent
    /\ thread[1].frame.total_monthly_customers
         # thread[2].frame.total_monthly_customers
    /\ heap[thread[1].results] # heap[thread[2].results]

\* C9: once the engine is constructed no call changes an attribute of it
C9_ConfigurationFrozen ==
    [][self.constructed => self' = self]_vars

\* a constructed engine that has served both kinds of call
C9_Witness ==
    /\ self.constructed
    /\ self.saturation_point = 4500
    /\ Called
    /\ kpi_definitions # None

\* the keys of the result contract
ResultKeys ==
    {"current_coin_users", "target_coin_users", "new_coin_users",
     "avg_monthly_amount_per_user", "incremental_revenue_monthly",
     "monthly_cost", "total_monthly_cost", "net_monthly_impact",
     "annual_impact", "roi_percentage", "payback_period_months",
     "customer_ltv_increase", "revenue_confidence_lower",
     "revenue_confidence_upper", "risk_adjusted_annual_impact", "risk_score"}

\* C10: every result mapping a call returns has every key of the result
\* contract, which covers the keys the dashboard reads
C10_ResultComplete ==
    (Called /\ last_call.out.raised = "none")
        => /\ DOMAIN last_call.out.results = ResultKeys
           /\ KeysReadByDashboard \subseteq DOMAIN last_call.out.results

\* a complete mapping from a growing call and one from a shrinking call
C10_Witness ==
    /\ Called
    /\ first_call.frame.incremental_coin_users > 0
    /\ last_call.frame.incremental_coin_users < 0
    /\ DOMAIN first_call.out.results = ResultKeys
    /\ DOMAIN last_call.out.results = ResultKeys

\* a call inside the contract: a target in [0,100] and a positive customer count
ValidInput(call) ==
    /\ call.target_usage_percent \in 0..100
    /\ call.total_monthly_customers > 0

\* C11: for a target in [0,100] the incrementality fraction is
\* max(0.4, 0.75 - 0.3 x effective rate) and lies in [0.4, 0.75]
C11_IncrementalityBounded ==
    (Called /\ last_call.target_usage_percent \in 0..100)
        => /\ last_call.frame.incrementality_rate
                = Max(4000, 7500 - (3000 * last_call.frame.effective_rate) \div RS)
           /\ last_call.frame.incrementality_rate >= 4000
           /\ last_call.frame.incrementality_rate <= 7500

\* the full base incrementality at target 0 and a reduced one at target 100
C11_Witness ==
    /\ Called
    /\ first_call.target_usage_percent = 0
    /\ first_call.frame.incrementality_rate = 7500
    /\ last_call.target_usage_percent = 100
    /\ last_call.frame.incrementality_rate < 7500
    /\ last_call.frame.incrementality_rate > 4000

\* C12: for every input the risk score is 100 x (executionRisk + marketRisk
\* - executionRisk x marketRisk) with executionRisk = min(0.3, 0.5 x
\* effective rate) and marketRisk = 0.1, and it lies in [0,100]
C12_RiskScoreInRange ==
    Called
        => /\ last_call.out.raised = "none"
           /\ LET executionRisk == Min(3000, MulS(last_call.frame.effective_rate, 5000, RS))
                  marketRisk == 1000
                  totalRisk == executionRisk + marketRisk
                                 - MulS(executionRisk, marketRisk, RS)
              IN  /\ last_call.out.results["risk_score"]
                        = RoundTo(totalRisk * 100, RS, 10)
                  /\ last_call.out.results["risk_score"] >= 0
                  /\ last_call.out.results["risk_score"] <= 100 * 10

\* annualImpact / (incrementalMonthlyCost x 12) x 100, to two decimals
RoiFormula(f) ==
    RoundTo(DivBig(f.annual_impact, f.monthly_cost * 12, 100 * 1000), 1000, 100)

\* C13 as claimed: for every valid input the ROI is annualImpact /
\* (incrementalMonthlyCost x 12) x 100 whenever the cost is not 0, a
\* negative cost included, and it is 0 exactly when the cost is 0
C13_RoiForEveryNonzeroCost ==
    (Called /\ ValidInput(last_call))
        => /\ last_call.out.raised = "none"
           /\ last_call.frame.monthly_cost # 0
                => last_call.out.results["roi_percentage"] = RoiFormula(last_call.frame)
           /\ last_call.out.results["roi_percentage"] = 0
                <=> last_call.frame.monthly_cost = 0

\* C13 as amended: for every valid input the ROI is annualImpact /
\* (incrementalMonthlyCost x 12) x 100 whenever the cost is greater than 0,
\* and it is 0 whenever the cost is 0 or negative
C13_RoiForPositiveCost ==
    (Called /\ ValidInput(last_call))
        => /\ last_call.out.raised = "none"
           /\ last_call.frame.monthly_cost > 0
                => last_call.out.results["roi_percentage"] = RoiFormula(last_call.frame)
           /\ last_call.frame.monthly_cost <= 0
                => last_call.out.results["roi_percentage"] = 0

\* a growing call with a positive ROI, then a contraction whose ROI is 0
\* although its annual impact is not
C13_Witness ==
    /\ Called
    /\ ValidInput(first_call)
    /\ ValidInput(last_call)
    /\ first_call.frame.monthly_cost > 0
    /\ first_call.out.results["roi_percentage"] > 0
    /\ last_call.frame.monthly_cost < 0
    /\ last_call.frame.annual_impact > 0
    /\ last_call.out.results["roi_percentage"] = 0

\* C14: for every valid input the payback period is incrementalMonthlyCost /
\* netMonthlyImpact (to one decimal) when the net monthly impact is > 0 and
\* the infinite sentinel when it is <= 0
C14_PaybackPeriod ==
    (Called /\ ValidInput(last_call))
        => /\ last_call.out.raised = "none"
           /\ last_call.frame.net_monthly_impact > 0
                => last_call.out.results["payback_period_months"]
                     = RoundTo(DivBig(last_call.frame.monthly_cost,
                                      last_call.frame.net_monthly_impact, 100),
                               100, 10)
           /\ last_call.frame.net_monthly_impact <= 0
                => last_call.out.results["payback_period_months"] = Inf

\* a call with a finite payback period, then one with a negative net impact
C14_Witness ==
    /\ Called
    /\ ValidInput(first_call)
    /\ ValidInput(last_call)
    /\ first_call.frame.net_monthly_impact > 0
    /\ first_call.out.results["payback_period_months"] > 0
    /\ first_call.out.results["payback_period_months"] < Inf
    /\ last_call.frame.net_monthly_impact < 0
    /\ last_call.out.results["payback_period_months"] = Inf

\* C15: the standard deviation of the confidence interval is not negative,
\* so for every input the lower bound is at most the monthly incremental
\* revenue, which is at most the upper bound
C15_ConfidenceIntervalOrdered ==
    (Called /\ last_call.out.raised = "none")
        => /\ last_call.frame.revenue_std >= 0
           /\ last_call.out.results["revenue_confidence_lower"]
                <= last_call.out.results["incremental_revenue_monthly"]
           /\ last_call.out.results["incremental_revenue_monthly"]
                <= last_call.out.results["revenue_confidence_upper"]

\* C16: for every input the monthly incremental revenue is incremental
\* users x spend lift x incrementality, whatever the sign of the incremental
\* users, and its sign is theirs when the spend lift is not negative
C16_RevenueFormula ==
    Called
        => /\ last_call.out.raised = "none"
           /\ last_call.frame.monthly_incremental_revenue
                = MulS(last_call.frame.incremental_coin_users,
                       MulS(self.spend_lift_per_user,
                            last_call.frame.incrementality_rate, RS), CS)
           /\ last_call.out.results["incremental_revenue_monthly"]
                = last_call.frame.monthly_incremental_revenue
           /\ self.spend_lift_per_user >= 0
                => Sgn(last_call.frame.monthly_incremental_revenue)
                     = Sgn(last_call.frame.incremental_coin_users)

\* a growing call with a positive revenue, then a shrinking call with a
\* negative one
C16_Witness ==
    /\ Called
    /\ first_call.frame.incremental_coin_users > 0
    /\ first_call.out.results["incremental_revenue_monthly"] > 0
    /\ last_call.frame.incremental_coin_users < 0
    /\ last_call.out.results["incremental_revenue_monthly"] < 0

\* users x discount per redemption x redemption frequency x volume discount
CostFormula(f, users) ==
    MulS(MulS(users * 30, f.avg_redemptions_per_user, CS), f.volume_discount, RS)

\* C17: for every input the total monthly cost is the cost of the target
\* users and is >= 0, the incremental monthly cost is the cost of the
\* incremental users and has their sign, and the net monthly impact is the
\* monthly incremental revenue minus the incremental monthly cost
C17_CostFormulas ==
    Called
        => /\ last_call.frame.total_monthly_cost
                = CostFormula(last_call.frame, last_call.frame.target_coin_users)
           /\ last_call.frame.total_monthly_cost >= 0
           /\ last_call.frame.monthly_cost
                = CostFormula(last_call.frame, last_call.frame.incremental_coin_users)
           /\ Sgn(last_call.frame.monthly_cost)
                = Sgn(last_call.frame.incremental_coin_users)
           /\ last_call.frame.net_monthly_impact
                = last_call.frame.monthly_incremental_revenue
                    - last_call.frame.monthly_cost

\* the net impact of month m of the trajectory: the users of the month are
\* the eligible customers times the rate of the month
MonthNet(f, m) ==
    LET monthUsers == MulS(f.eligible_customers,
                           monthly_growth_curve(m, f.effective_rate), RS)
    IN  MulS(monthUsers, f.incremental_spend_per_user, CS) - CostFormula(f, monthUsers)

C19_RiskAdjustedShrinks ==
    Called
        => /\ last_call.out.raised = "none"
           /\ last_call.out.results["risk_adjusted_annual_impact"]
                = MulS(last_call.frame.annual_impact,
                       RS - last_call.frame.risk_factor, RS)
           /\ Sgn(last_call.out.results["risk_adjusted_annual_impact"])
                = Sgn(last_call.frame.annual_impact)
           /\ Abs(last_call.out.results["risk_adjusted_annual_impact"])
                <= Abs(last_call.frame.annual_impact)

\* the fields of one KPI definition
KpiFields == {"definition", "formula", "importance"}
\* the KPIs get_kpi_definitions documents
DocumentedKpis ==
    {"New Coin Users", "Average Monthly Amount per User", "Incremental Revenue",
     "Net Monthly Impact", "Annual Impact", "Risk-Adjusted Impact",
     "Payback Period", "Customer LTV Increase"}
\* the further KPIs of the result contract
UndocumentedKpis == {"ROI %", "Monthly Cost", "Confidence Bounds", "Risk Score"}

\* C20 as claimed: every call returns the same mapping, every entry has
\* exactly the fields definition, formula and importance, and every KPI of
\* the result contract, ROI %, monthly cost, confidence bounds and risk
\* score included, has an entry
C20_KpiCoversContract ==
    kpi_definitions # None
        => /\ \A k \in DOMAIN kpi_definitions : DOMAIN kpi_definitions[k] = KpiFields
           /\ (DocumentedKpis \cup UndocumentedKpis) \subseteq DOMAIN kpi_definitions

\* C20 as amended: every call returns the same mapping, every entry has
\* exactly the fields definition, formula and importance, and the entries
\* are those of the eight KPIs the dashboard shows as metrics
C20_KpiStaticLookup ==
    /\ [](kpi_definitions # None
            => /\ DOMAIN kpi_definitions = DocumentedKpis
               /\ \A k \in DOMAIN kpi_definitions :
                    DOMAIN kpi_definitions[k] = KpiFields)
    /\ [][kpi_definitions # None => kpi_definitions' = kpi_definitions]_vars

\* the definitions returned to a caller that has also projected an impact
C20_Witness ==
    /\ kpi_definitions # None
    /\ Called
    /\ Cardinality(DOMAIN kpi_definitions) = 8
    /\ kpi_definitions["Payback Period"].formula = "Monthly Cost / Net Monthly Impact"

\* C21: initialization completes on insufficient history: with fewer than
\* 2 rows in the monthly trend series the elasticity is the default -0.3,
\* with an empty rewarded or non-rewarded segment the redemption frequency
\* is the constant 7.3 or 4.0, and none of the three is a nan
C21_InitializationFallbacks ==
    self.constructed
        => /\ history.trend_rows < 2 => self.discount_elasticity = -3000
           /\ history.zc_rows = 0 => self.avg_freq_zc = 730
           /\ history.non_zc_rows = 0 => self.avg_freq_non_zc = 400
           /\ (history.trend_rows < 2 /\ history.zc_rows = 0 /\ history.non_zc_rows = 0)
                => NaN \notin {self.discount_elasticity, self.avg_freq_zc,
                               self.avg_freq_non_zc}

\* an engine built from one trend row and two empty segments has answered
\* a call
C21_Witness ==
    /\ self.constructed
    /\ history.trend_rows = 1
    /\ history.zc_rows = 0
    /\ history.non_zc_rows = 0
    /\ self.discount_elasticity = -3000
    /\ Called
    /\ last_call.out.raised = "none"

\* C22: an engine that fell back to the default elasticity can be told
\* from every engine with a fitted one: its configuration differs from the
\* configuration any history with a fitted elasticity gives
C22_FallbackObservable ==
    (self.constructed /\ history.trend_rows < 2)
        => \A h \in FileHistories, std \in BootstrapStd :
              h.trend_rows >= 2 => init(h, std) # self

C25_VolumeDiscount ==
    /\ Called
         => /\ last_call.frame.volume_discount
                 = RS - MulS(1000, Min(last_call.frame.effective_rate, 5000), RS)
            /\ first_call.frame.effective_rate <= last_call.frame.effective_rate
                 => first_call.frame.volume_discount >= last_call.frame.volume_discount
    /\ self.constructed
         => \E p \in 0..100 :
              money_section(self, users_section(self, p, DefaultCustomers)).volume_discount
                  <= RS - 1000

\* C26: the growth curve of the 12-month trajectory has half the effective
\* rate at month index 6, does not decrease over the months 0..11, never
\* exceeds the effective rate, and is > 0 in every month for a positive
\* effective rate
C26_GrowthCurveShape ==
    (Called /\ last_call.frame.effective_rate >= 0)
        => LET rate == last_call.frame.effective_rate
           IN  /\ monthly_growth_curve(6, rate) = rate \div 2
               /\ \A m \in 0..10 :
                    monthly_growth_curve(m, rate) <= monthly_growth_curve(m + 1, rate)
               /\ \A m \in 0..11 :
                    /\ monthly_growth_curve(m, rate) <= rate
                    /\ rate > 0 => monthly_growth_curve(m, rate) > 0

\* a call with a positive effective rate whose curve rises through the year
C26_Witness ==
    /\ Called
    /\ last_call.frame.effective_rate > 0
    /\ monthly_growth_curve(0, last_call.frame.effective_rate)
         < monthly_growth_curve(6, last_call.frame.effective_rate)
    /\ monthly_growth_curve(6, last_call.frame.effective_rate)
         < monthly_growth_curve(11, last_call.frame.effective_rate)
    /\ monthly_growth_curve(11, last_call.frame.effective_rate)
         < last_call.frame.effective_rate
    /\ last_call.frame.annual_impact # 0

\* the engines that differ from e only in the bootstrapped prediction_std,
\* the spend_model, the fitted discount_elasticity or the network_effect
EngineVariants(e) ==
    {[e EXCEPT !.prediction_std = std, !.spend_model = model,
               !.discount_elasticity = elasticity, !.network_effect = effect] :
        std \in BootstrapStd \cup {100 * CS},
        model \in {"None", "RandomForestRegressor"},
        elasticity \in {-3000, -4200},
        effect \in {1500, 3000}}

C28_BelowSaturation ==
    (Called /\ ValidInput(last_call))
        => LET f == last_call.frame
           IN  /\ f.effective_rate < self.saturation_point
               /\ self.saturation_point = 4500
               /\ f.target_coin_users < MulS(f.eligible_customers, 4500, RS)
               /\ MulS(f.effective_rate, 5000, RS) < 3000
               /\ f.risk_factor < 3000 + 1000 - MulS(3000, 1000, RS)

\* the largest target, 100%: the rate is above 0.44 and still below 0.45
C28_Witness ==
    /\ Called
    /\ ValidInput(last_call)
    /\ last_call.target_usage_percent = 100
    /\ last_call.frame.effective_rate > 4400
    /\ last_call.frame.effective_rate < 4500

\* C29: each of the three reported user counts is its own value truncated
\* toward zero, so new_coin_users is within 1 of target_coin_users -
\* current_coin_users and is never further from zero than the unrounded
\* incremental users
C29_UserCountsTruncated ==
    (Called /\ last_call.out.raised = "none")
        => LET f == last_call.frame
               r == last_call.out.results
           IN  /\ r["current_coin_users"] = IntOf(f.current_coin_users, CS)
               /\ r["target_coin_users"] = IntOf(f.target_coin_users, CS)
               /\ r["new_coin_users"] = IntOf(f.incremental_coin_users, CS)
               /\ Abs(r["new_coin_users"]
                        - (r["target_coin_users"] - r["current_coin_users"])) <= 1
               /\ Abs(r["new_coin_users"]) * CS <= Abs(f.incremental_coin_users)

\* a call whose reported change in users is not the difference of the two
\* reported counts
C29_Witness ==
    /\ Called
    /\ last_call.out.raised = "none"
    /\ last_call.frame.incremental_coin_users < 0
    /\ last_call.out.results["new_coin_users"]
         # last_call.out.results["target_coin_users"]
             - last_call.out.results["current_coin_users"]

\* spend_lift x incrementality - discount x frequency x volume discount
PerUserMargin(f) ==
    f.incremental_spend_per_user
        - MulS(MulS(30 * CS, f.avg_redemptions_per_user, CS), f.volume_discount, RS)

\* C30: for every input whose per-user margin is positive the annual impact
\* and the risk-adjusted annual impact are >= 0, and when the incremental
\* users are negative the ROI is 0 and the payback period is infinite
C30_AnnualImpactNonNegative ==
    (Called /\ last_call.out.raised = "none" /\ PerUserMargin(last_call.frame) > 0)
        => LET f == last_call.frame
               r == last_call.out.results
           IN  /\ r["annual_impact"] >= 0
               /\ r["risk_adjusted_annual_impact"] >= 0
               /\ f.incremental_coin_users < 0
                    => /\ r["roi_percentage"] = 0
                       /\ r["payback_period_months"] = Inf

====
